---------------------------- MODULE Spec2Model ----------------------------
(***************************************************************************)
(* The interactive word-wrapping demo (examples/interactive.rs): the       *)
(* input/update loop of unix_only::main, the frame renderer draw_text and  *)
(* draw_margins, the splitter registry and the terminal acquired in raw    *)
(* mode on the alternate screen.                                           *)
(*                                                                         *)
(* A string is a sequence of one-character strings.  One step of the model *)
(* is one pass of the code between two blocking points: the acquisition of *)
(* the terminal with the first render, or one key event with the render    *)
(* that follows it, or the end of the loop with the epilogue of main.      *)
(***************************************************************************)
EXTENDS Integers, Sequences, FiniteSets, TLC

VARIABLES
    pc,          \* "start": before line 190; "loop": blocked in stdin.keys(); "done": main is over
    labels,      \* Vec<String>: the registered labels
    splitters,   \* Vec<SplitterChanger>: the registered strategies, by identity
    idx_iter,    \* position of the cycling index iterator: the index next() returns next
    label,       \* the displayed splitter label
    options,     \* the Wrapper: [width, break_words, splitter]
    text,        \* the text buffer
    screen,      \* the terminal: [raw, alternate]
    frame,       \* the writes the latest draw_text call issued, in order
    raw,         \* what options.wrap(text) returned in the latest draw_text call
    lines,       \* the line sequence of the latest draw_text call after the padding
    fault,       \* the failure the environment produced, "none" when none did
    result,      \* what main returned: "none" while it runs
    key,         \* the key event consumed last
    nEvents,     \* key events consumed (c? evaluated to a key)
    nRenders,    \* draw_text calls that returned Ok
    styleSet,    \* writes of cursor::BlinkingUnderline
    styleReset,  \* writes of the cursor-style reset sequence
    nPush,       \* Key::Char events consumed
    nPop,        \* Key::Backspace events consumed
    pushAfterPop,\* a Key::Char event was consumed after a Key::Backspace event
    nCycles,     \* Key::Ctrl('s') events consumed
    prevBreakWords \* options.break_words before the latest pass of the loop body

vars == << pc, labels, splitters, idx_iter, label, options, text, screen, frame,
           raw, lines, fault, result, key, nEvents, nRenders, styleSet, styleReset,
           nPush, nPop, pushAfterPop, nCycles, prevBreakWords >>

\* The counters of consumed events, which no code reads.
tally == << nPush, nPop, pushAfterPop, nCycles, prevBreakWords >>

(***************************************************************************)
(* Bounds of the model.                                                    *)
(***************************************************************************)
\* Key events one run consumes.
MaxEvents == 3

(***************************************************************************)
(* Constants of the program.                                               *)
(***************************************************************************)
initial_width == 20

\* A u16 holds 0 .. U16Range - 1.
U16Range == 65536

\* usize::MAX.  TLC's integers end at 2^31 - 1, which stands here for the
\* largest usize: it is above every u16, as usize::MAX is on a unix target.
UsizeMax == 2147483647

InitialText ==
 << "W", "e", "l", "c", "o", "m", "e", " ", "t", "o", " ", "t", "h", "e",
    " ", "i", "n", "t", "e", "r", "a", "c", "t", "i", "v", "e", " ", "w",
    "o", "r", "d", "-", "w", "r", "a", "p", "p", "i", "n", "g", " ", "d",
    "e", "m", "o", "!", " ", "U", "s", "e", " ", "t", "h", "e", " ", "a",
    "r", "r", "o", "w", " ", "k", "e", "y", "s", " ", "t", "o", " ", "c",
    "h", "a", "n", "g", "e", " ", "t", "h", "e", " ", "l", "i", "n", "e",
    " ", "l", "e", "n", "g", "t", "h", " ", "a", "n", "d", " ", "t", "r",
    "y", " ", "t", "y", "p", "i", "n", "g", " ", "y", "o", "u", "r", " ",
    "o", "w", "n", " ", "t", "e", "x", "t", "!" >>

\* The characters a Key::Char event carries in the model.
Chars == {"a", "\n"}

(***************************************************************************)
(* The splitter registry (lines 143-183).                                  *)
(***************************************************************************)
\* (a changed Labels: the label is pushed outside the `if let Ok(dict)`)
LabelsAlways(dictLoaded) ==
    << "HyphenSplitter", "NoHyphenation", "en-us hyphenation" >>

\* labels, after the optional dictionary was or was not loaded.
Labels(dictLoaded) ==
    << "HyphenSplitter", "NoHyphenation" >>
        \o (IF dictLoaded THEN << "en-us hyphenation" >> ELSE << >>)

\* splitters: each closure is named by the strategy it installs.
Splitters(dictLoaded) ==
    << "HyphenSplitter", "NoHyphenation" >>
        \o (IF dictLoaded THEN << "Standard(en-us)" >> ELSE << >>)

\* (a changed SplitterChanger: the closure builds a new wrapper of the same
\* width, and break_words is back at the default of Wrapper::new)
SplitterChangerFresh(idx, w) ==
    [width |-> w.width, break_words |-> FALSE, splitter |-> splitters[idx + 1]]

\* splitters[idx](&options): the same wrapper with the strategy of entry idx.
SplitterChanger(idx, w) == [w EXCEPT !.splitter = splitters[idx + 1]]

\* (a changed CycleAdvance: an iterator that does not start over)
CycleAdvanceStuck(pos, n) == IF pos + 1 >= n THEN n - 1 ELSE pos + 1

\* The position of the cycle() iterator after one next() (line 172).
CycleAdvance(pos, n) == (pos + 1) % n

(***************************************************************************)
(* Saturating arithmetic on usize (lines 198-199).                         *)
(***************************************************************************)
\* (a changed saturating_sub: wrapping_sub)
wrapping_sub(w, d) == IF w < d THEN UsizeMax - (d - w - 1) ELSE w - d

saturating_sub(w, d) == IF w < d THEN 0 ELSE w - d

saturating_add(w, d) == IF w > UsizeMax - d THEN UsizeMax ELSE w + d

(***************************************************************************)
(* The external wrap algorithm, options.wrap(text).  The core treats it as  *)
(* opaque, and so does the model: whatever the text and the options, each  *)
(* of these line sequences is a possible result: no line; one line; one    *)
(* line that ends with a newline; two lines of which the first ends with   *)
(* a newline; two lines of which the last does.                            *)
(***************************************************************************)
WrapResults(t, w) ==
    { << >>,
      << << "a" >> >>,
      << << "a", "\n" >> >>,
      << << "a", "\n" >>, << "a", "b" >> >>,
      << << "a", "b" >>, << "a", "\n" >> >> }

(***************************************************************************)
(* The padding of the wrapped lines (lines 104-117).                       *)
(***************************************************************************)
ends_with(line, c) == line # << >> /\ line[Len(line)] = c

\* (a changed PadLines: no line is added to an empty result)
PadLinesNoElse(r) ==
    IF r # << >>
    THEN IF ends_with(r[Len(r)], "\n") THEN Append(r, << >>) ELSE r
    ELSE r

\* (a changed PadLines: lines.first() is tested, not lines.last())
PadLinesFirst(r) ==
    IF r # << >>
    THEN IF ends_with(r[1], "\n") THEN Append(r, << >>) ELSE r
    ELSE Append(r, << >>)

PadLines(r) ==
    IF r # << >>
    THEN IF ends_with(r[Len(r)], "\n") THEN Append(r, << >>) ELSE r
    ELSE Append(r, << >>)

(***************************************************************************)
(* The writes of a frame.  A write is [op, row, col, kind, val]: "clear",  *)
(* "put" (a cursor::Goto followed by content) or "flush".  A "panic" entry *)
(* marks an arithmetic overflow in a build that checks for it.             *)
(***************************************************************************)
Write(op, row, col, kind, val) ==
    [op |-> op, row |-> row, col |-> col, kind |-> kind, val |-> val]

Panic == Write("panic", 0, 0, "overflow", << >>)

\* u16 addition: wraps in a build without overflow checks; with them it
\* panics, which AddU16Overflows tells.
AddU16(a, b) == (a + b) % U16Range

AddU16Overflows(a, b) == a + b >= U16Range

\* `as u16` (lines 122, 124, 128): truncation.
AsU16(n) == n % U16Range

\* draw_margins (lines 27-53): two writes.
draw_margins(row, col, line_width, left, right, checked) ==
    << Write("put", row, col - 1, "glyph", << left >>) >>
    \o (IF checked /\ AddU16Overflows(col, line_width)
        THEN << Panic >>
        ELSE << Write("put", row, AddU16(col, line_width), "glyph", << right >>) >>)

\* (a changed DrawLines: the content of a line is written before its margins)
RECURSIVE DrawLinesContentFirst(_, _, _, _, _, _)
DrawLinesContentFirst(ls, i, row, col, width, checked) ==
    IF i > Len(ls)
    THEN << >>
    ELSE << Write("put", row, col, "line", ls[i]) >>
         \o draw_margins(row, col, AsU16(width), "V", "V", checked)
         \o DrawLinesContentFirst(ls, i + 1, row + 1, col, width, checked)

\* The for loop of lines 127-131 over ls[i..], the first at row `row`.
RECURSIVE DrawLines(_, _, _, _, _, _)
DrawLines(ls, i, row, col, width, checked) ==
    IF i > Len(ls)
    THEN << >>
    ELSE draw_margins(row, col, AsU16(width), "V", "V", checked)
         \o << Write("put", row, col, "line", ls[i]) >>
         \o DrawLines(ls, i + 1, row + 1, col, width, checked)

\* let mut row: u16 = 1 and let col: u16 = 3 (lines 61-62).
FirstRow == 1

TextCol == 3

\* The writes draw_text attempts before the wrap (lines 64-101), row
\* advancing by one after each of the first three put.
Banner(opts, splitter_label) ==
    << Write("clear", 0, 0, "all", << >>),
       Write("put", FirstRow, TextCol, "header", << "Settings:" >>),
       Write("put", FirstRow + 1, TextCol, "width", << opts.width >>),
       Write("put", FirstRow + 2, TextCol, "break_words", << opts.break_words >>),
       Write("put", FirstRow + 3, TextCol, "splitter", << splitter_label >>) >>

\* (a changed MarginRow: row += 1, no blank row under the settings)
MarginRowNoGap == FirstRow + 3 + 1

\* row after `row += 2` (line 102).
MarginRow == FirstRow + 3 + 2

\* (a changed Body: the flush comes before the loop over the lines)
BodyFlushEarly(opts, ls, checked) ==
    draw_margins(MarginRow, TextCol, AsU16(opts.width), "UL", "UR", checked)
    \o draw_margins(MarginRow + Len(ls) + 1, TextCol, AsU16(opts.width),
                    "LL", "LR", checked)
    \o << Write("flush", 0, 0, "all", << >>) >>
    \o DrawLines(ls, 1, MarginRow + 1, TextCol, opts.width, checked)

\* (a changed Body: the lower margin rule is drawn after the lines)
BodyLowerLast(opts, ls, checked) ==
    draw_margins(MarginRow, TextCol, AsU16(opts.width), "UL", "UR", checked)
    \o DrawLines(ls, 1, MarginRow + 1, TextCol, opts.width, checked)
    \o draw_margins(MarginRow + Len(ls) + 1, TextCol, AsU16(opts.width),
                    "LL", "LR", checked)
    \o << Write("flush", 0, 0, "all", << >>) >>

\* The writes draw_text attempts once the lines are known (lines 119-133).
Body(opts, ls, checked) ==
    draw_margins(MarginRow, TextCol, AsU16(opts.width), "UL", "UR", checked)
    \o draw_margins(MarginRow + Len(ls) + 1, TextCol, AsU16(opts.width),
                    "LL", "LR", checked)
    \o DrawLines(ls, 1, MarginRow + 1, TextCol, opts.width, checked)
    \o << Write("flush", 0, 0, "all", << >>) >>

\* The index of the first panic of ws, Len(ws) + 1 when there is none.
RECURSIVE FirstPanic(_, _)
FirstPanic(ws, i) ==
    IF i > Len(ws) \/ ws[i].op = "panic" THEN i ELSE FirstPanic(ws, i + 1)

\* What one wrap result leads to: an I/O failure at any write attempted or
\* at the flush, a panic at the first overflow, or the whole frame.
BodyOutcomes(banner, opts, r, checked) ==
    LET ls == PadLines(r)
        body == Body(opts, ls, checked)
        p == FirstPanic(body, 1)
        out(k, f) == [frame |-> banner \o SubSeq(body, 1, k), wrapped |-> TRUE,
                      raw |-> r, lines |-> ls, fault |-> f]
    IN  { out(i - 1, IF body[i].op = "flush" THEN "draw_flush" ELSE "draw_write") :
              i \in 1..(p - 1) }
        \cup (IF p <= Len(body) THEN { out(p - 1, "panic") }
                                ELSE { out(Len(body), "none") })

\* draw_text (lines 55-134): the set of its possible outcomes.  Each write
\* may fail, and the function returns at the first that does.
draw_text(t, opts, splitter_label) ==
    LET banner == Banner(opts, splitter_label)
    IN  { [frame |-> SubSeq(banner, 1, i - 1), wrapped |-> FALSE,
           raw |-> << >>, lines |-> << >>, fault |-> "draw_write"] :
              i \in 1..Len(banner) }
        \cup UNION { BodyOutcomes(banner, opts, r, checked) :
                        r \in WrapResults(t, opts), checked \in BOOLEAN }

(***************************************************************************)
(* main (lines 136-220).                                                   *)
(***************************************************************************)
NoKey == [name |-> "none", c |-> ""]

Key(name) == [name |-> name, c |-> ""]

KeyChar(c) == [name |-> "Char", c |-> c]

\* (a changed Try: the result of draw_text is dropped, not propagated)
TryIgnoreDraw(f) ==
    IF f \in {"none", "draw_write", "draw_flush"}
    THEN [pc |-> "loop", result |-> "none"]
    ELSE [pc |-> "done", result |-> f]

\* The `?` operator: a failure ends main, which returns it; a panic
\* unwinds main.
Try(f) ==
    IF f = "none" THEN [pc |-> "loop", result |-> "none"]
                  ELSE [pc |-> "done", result |-> f]

\* (a changed ExitScreen: the terminal is restored by hand before Ok(()))
ExitScreenOnOk(s, res) ==
    IF res = "Ok" THEN [raw |-> FALSE, alternate |-> FALSE] ELSE s

\* `screen` when main is left, by return or by unwinding: the
\* AlternateScreen and the RawTerminal in it are dropped (line 191 owns
\* them), which leaves the alternate screen and restores the mode.
ExitScreen(s, res) == [raw |-> FALSE, alternate |-> FALSE]

\* The state after construction (lines 137-188), the optional dictionary
\* loaded or not.
Init ==
    \E dictLoaded \in BOOLEAN :
        /\ pc = "start"
        /\ labels = Labels(dictLoaded)
        /\ splitters = Splitters(dictLoaded)
        /\ idx_iter = CycleAdvance(0, Len(Splitters(dictLoaded)))
        /\ label = Labels(dictLoaded)[0 + 1]
        /\ options = [width |-> initial_width, break_words |-> FALSE,
                      splitter |-> Splitters(dictLoaded)[0 + 1]]
        /\ text = InitialText
        /\ screen = [raw |-> FALSE, alternate |-> FALSE]
        /\ frame = << >>
        /\ raw = << >>
        /\ lines = << >>
        /\ fault = "none"
        /\ result = "none"
        /\ key = NoKey
        /\ nEvents = 0
        /\ nRenders = 0
        /\ styleSet = 0
        /\ styleReset = 0
        /\ nPush = 0
        /\ nPop = 0
        /\ pushAfterPop = FALSE
        /\ nCycles = 0
        /\ prevBreakWords = FALSE

\* main is left with failure f (or "none": Ok(())).
Leave(f) ==
    /\ pc' = "done"
    /\ fault' = f
    /\ result' = IF f = "none" THEN "Ok" ELSE Try(f).result
    /\ screen' = ExitScreen(screen, result')

\* A call draw_text(&text, &options, &label, &mut screen)? with outcome o
\* (lines 193 and 213), text, options and label being those of the next state.
Draw(o) ==
    /\ frame' = o.frame
    /\ raw' = IF o.wrapped THEN o.raw ELSE raw
    /\ lines' = IF o.wrapped THEN o.lines ELSE lines
    /\ fault' = o.fault
    /\ nRenders' = IF o.fault = "none" THEN nRenders + 1 ELSE nRenders
    /\ pc' = Try(o.fault).pc
    /\ result' = Try(o.fault).result
    /\ screen' = IF Try(o.fault).pc = "done"
                 THEN ExitScreen(screen, Try(o.fault).result)
                 ELSE [raw |-> TRUE, alternate |-> TRUE]

\* Lines 190-193: the terminal is acquired, the cursor style set and the
\* first frame drawn.
Acquire ==
    /\ pc = "start"
    /\ UNCHANGED << labels, splitters, idx_iter, label, options, text, key,
                    nEvents, styleReset, tally >>
    /\ \/ \* into_raw_mode()? fails: the terminal was never acquired
          /\ pc' = "done"
          /\ fault' = "raw_mode"
          /\ result' = Try("raw_mode").result
          /\ UNCHANGED << screen, frame, raw, lines, nRenders, styleSet >>
       \/ \* the write of cursor::BlinkingUnderline fails
          /\ Leave("style_write")
          /\ UNCHANGED << frame, raw, lines, nRenders, styleSet >>
       \/ /\ styleSet' = styleSet + 1
          /\ \E o \in draw_text(text, options, label) : Draw(o)

\* String::push and String::pop (lines 206-209).
Push(t, c) == Append(t, c)

\* (a changed Pop: the first character is removed)
PopFirst(t) == IF t = << >> THEN t ELSE Tail(t)

Pop(t) == IF t = << >> THEN t ELSE SubSeq(t, 1, Len(t) - 1)

\* One pass of the loop body (lines 195-214) for a key that is not a quit
\* key: the arm of the match gave opts, lbl, it and t, and the frame is
\* drawn from them.
Pass(k, opts, lbl, it, t) ==
    /\ pc = "loop"
    /\ nEvents < MaxEvents
    /\ key' = k
    /\ nEvents' = nEvents + 1
    /\ nPush' = IF k.name = "Char" THEN nPush + 1 ELSE nPush
    /\ nPop' = IF k.name = "Backspace" THEN nPop + 1 ELSE nPop
    /\ pushAfterPop' = (pushAfterPop \/ (k.name = "Char" /\ nPop > 0))
    /\ nCycles' = IF k.name = "Ctrl-s" THEN nCycles + 1 ELSE nCycles
    /\ prevBreakWords' = options.break_words
    /\ options' = opts
    /\ label' = lbl
    /\ idx_iter' = it
    /\ text' = t
    /\ UNCHANGED << labels, splitters, styleSet, styleReset >>
    /\ \E o \in draw_text(t, opts, lbl) : Draw(o)

\* Key::Left (line 198).
KeyLeft ==
    Pass(Key("Left"),
         [options EXCEPT !.width = saturating_sub(options.width, 1)],
         label, idx_iter, text)

\* Key::Right (line 199).
KeyRight ==
    Pass(Key("Right"),
         [options EXCEPT !.width = saturating_add(options.width, 1)],
         label, idx_iter, text)

\* (a changed KeyCtrlB: break_words is switched on, not negated)
KeyCtrlBSet ==
    Pass(Key("Ctrl-b"), [options EXCEPT !.break_words = TRUE],
         label, idx_iter, text)

\* Key::Ctrl('b') (line 200).
KeyCtrlB ==
    Pass(Key("Ctrl-b"),
         [options EXCEPT !.break_words = ~options.break_words],
         label, idx_iter, text)

\* (a changed KeyCtrlS: line 204 is missing)
KeyCtrlSNoLabel ==
    LET idx == idx_iter
    IN  Pass(Key("Ctrl-s"), SplitterChanger(idx, options), label,
             CycleAdvance(idx_iter, Len(splitters)), text)

\* Key::Ctrl('s') (lines 201-205).
KeyCtrlS ==
    LET idx == idx_iter
    IN  Pass(Key("Ctrl-s"), SplitterChanger(idx, options), labels[idx + 1],
             CycleAdvance(idx_iter, Len(splitters)), text)

\* Key::Char(c) (line 206).
KeyCharacter ==
    \E c \in Chars :
        Pass(KeyChar(c), options, label, idx_iter, Push(text, c))

\* Key::Backspace (lines 207-209).
KeyBackspace ==
    Pass(Key("Backspace"), options, label, idx_iter, Pop(text))

\* (a changed KeyOther: a key that changes nothing draws nothing)
KeyOtherNoRender ==
    /\ pc = "loop"
    /\ nEvents < MaxEvents
    /\ key' = Key("Up")
    /\ nEvents' = nEvents + 1
    /\ UNCHANGED << pc, labels, splitters, idx_iter, label, options, text,
                    screen, frame, raw, lines, fault, result, nRenders,
                    styleSet, styleReset, tally >>

\* Any other key (line 210), Key::Up for one.
KeyOther ==
    Pass(Key("Up"), options, label, idx_iter, text)

\* Lines 216-219 and the return: the cursor-style reset is written and the
\* screen flushed.
Epilogue ==
    \E f \in {"reset_write", "final_flush", "none"} :
        /\ styleReset' = IF f = "reset_write" THEN styleReset ELSE styleReset + 1
        /\ Leave(f)

\* (a changed KeyQuit: only Key::Esc breaks, Ctrl-c falls to the last arm)
KeyQuitEscOnly ==
    \/ /\ pc = "loop"
       /\ nEvents < MaxEvents
       /\ key' = Key("Esc")
       /\ nEvents' = nEvents + 1
       /\ UNCHANGED << labels, splitters, idx_iter, label, options, text,
                       frame, raw, lines, nRenders, styleSet, tally >>
       /\ Epilogue
    \/ Pass(Key("Ctrl-c"), options, label, idx_iter, text)

\* Key::Esc | Key::Ctrl('c') => break (line 197).
KeyQuit ==
    /\ pc = "loop"
    /\ nEvents < MaxEvents
    /\ \E k \in {"Esc", "Ctrl-c"} : key' = Key(k)
    /\ nEvents' = nEvents + 1
    /\ UNCHANGED << labels, splitters, idx_iter, label, options, text, frame,
                    raw, lines, nRenders, styleSet, tally >>
    /\ Epilogue

\* stdin.keys() is over (line 195): the loop ends as it does by a break.
KeysEnd ==
    /\ pc = "loop"
    /\ UNCHANGED << labels, splitters, idx_iter, label, options, text, frame,
                    raw, lines, key, nEvents, nRenders, styleSet, tally >>
    /\ Epilogue

\* (a changed KeyReadError: the cursor style is reset before main returns)
KeyReadErrorReset ==
    /\ pc = "loop"
    /\ UNCHANGED << labels, splitters, idx_iter, label, options, text, frame,
                    raw, lines, key, nEvents, nRenders, styleSet, tally >>
    /\ styleReset' = styleReset + 1
    /\ Leave("key_read")

\* c? is an Err (line 196): main returns it.
KeyReadError ==
    /\ pc = "loop"
    /\ UNCHANGED << labels, splitters, idx_iter, label, options, text, frame,
                    raw, lines, key, nEvents, nRenders, styleSet, styleReset,
                    tally >>
    /\ Leave("key_read")

Loop ==
    \/ KeyLeft
    \/ KeyRight
    \/ KeyCtrlB
    \/ KeyCtrlS
    \/ KeyCharacter
    \/ KeyBackspace
    \/ KeyOther
    \/ KeyQuit
    \/ KeysEnd
    \/ KeyReadError

Next == Acquire \/ Loop

Spec == Init /\ [][Next]_vars

(***************************************************************************)
(* The loop from a later state of a session.  Every width and every text   *)
(* is reached by enough key events; these are states of a session with the *)
(* dictionary loaded, after the width was brought to a sample value and    *)
(* the text deleted, the frame drawn and the loop blocked on the next key. *)
(* The counters count from there.                                          *)
(***************************************************************************)
AnyWidths == { 0, UsizeMax - 1 }

InitAny ==
    \E dictLoaded \in {TRUE}, w \in AnyWidths :
        /\ pc = "loop"
        /\ labels = Labels(dictLoaded)
        /\ splitters = Splitters(dictLoaded)
        /\ idx_iter = CycleAdvance(0, Len(Splitters(dictLoaded)))
        /\ label = Labels(dictLoaded)[0 + 1]
        /\ options = [width |-> w, break_words |-> FALSE,
                      splitter |-> Splitters(dictLoaded)[0 + 1]]
        /\ text = << >>
        /\ screen = [raw |-> TRUE, alternate |-> TRUE]
        /\ \E o \in draw_text(text, options, label) :
              /\ o.fault = "none"
              /\ o.raw = << >>
              /\ frame = o.frame
              /\ raw = o.raw
              /\ lines = o.lines
        /\ fault = "none"
        /\ result = "none"
        /\ key = NoKey
        /\ nEvents = 0
        /\ nRenders = 1
        /\ styleSet = 1
        /\ styleReset = 0
        /\ nPush = 0
        /\ nPop = 0
        /\ pushAfterPop = FALSE
        /\ nCycles = 0
        /\ prevBreakWords = FALSE

SpecAny == InitAny /\ [][Loop]_vars

(***************************************************************************)
(* The loop from a state of a session in which Right was pressed until the *)
(* width came next to the largest u16: 65512 times from the initial width  *)
(* (then col + width is the largest u16), or 65515 times in a build that   *)
(* does not check for overflow.                                            *)
(***************************************************************************)
U16Widths == { U16Range - 4, U16Range - 1 }

InitU16 ==
    \E dictLoaded \in {TRUE}, w \in U16Widths :
        /\ pc = "loop"
        /\ labels = Labels(dictLoaded)
        /\ splitters = Splitters(dictLoaded)
        /\ idx_iter = CycleAdvance(0, Len(Splitters(dictLoaded)))
        /\ label = Labels(dictLoaded)[0 + 1]
        /\ options = [width |-> w, break_words |-> FALSE,
                      splitter |-> Splitters(dictLoaded)[0 + 1]]
        /\ text = InitialText
        /\ screen = [raw |-> TRUE, alternate |-> TRUE]
        /\ \E o \in draw_text(text, options, label) :
              /\ o.fault = "none"
              /\ o.raw = << << "a" >> >>
              /\ frame = o.frame
              /\ raw = o.raw
              /\ lines = o.lines
        /\ fault = "none"
        /\ result = "none"
        /\ key = Key("Right")
        /\ nEvents = 0
        /\ nRenders = 1
        /\ styleSet = 1
        /\ styleReset = 0
        /\ nPush = 0
        /\ nPop = 0
        /\ pushAfterPop = FALSE
        /\ nCycles = 0
        /\ prevBreakWords = FALSE

SpecU16 == InitU16 /\ [][Loop]_vars

(***************************************************************************)
(* The loop from a state of a session in which Left was pressed until the  *)
(* width was 2 or 0: a line of the samples is then as long as the width or *)
(* longer, as a word is that break_words = false leaves whole.             *)
(***************************************************************************)
NarrowWidths == { 0, 2 }

InitNarrow ==
    \E dictLoaded \in {TRUE}, w \in NarrowWidths :
        /\ pc = "loop"
        /\ labels = Labels(dictLoaded)
        /\ splitters = Splitters(dictLoaded)
        /\ idx_iter = CycleAdvance(0, Len(Splitters(dictLoaded)))
        /\ label = Labels(dictLoaded)[0 + 1]
        /\ options = [width |-> w, break_words |-> FALSE,
                      splitter |-> Splitters(dictLoaded)[0 + 1]]
        /\ text = InitialText
        /\ screen = [raw |-> TRUE, alternate |-> TRUE]
        /\ \E o \in draw_text(text, options, label) :
              /\ o.fault = "none"
              /\ o.raw = << >>
              /\ frame = o.frame
              /\ raw = o.raw
              /\ lines = o.lines
        /\ fault = "none"
        /\ result = "none"
        /\ key = Key("Left")
        /\ nEvents = 0
        /\ nRenders = 1
        /\ styleSet = 1
        /\ styleReset = 0
        /\ nPush = 0
        /\ nPop = 0
        /\ pushAfterPop = FALSE
        /\ nCycles = 0
        /\ prevBreakWords = FALSE

SpecNarrow == InitNarrow /\ [][Loop]_vars

(***************************************************************************)
(* The claims.                                                             *)
(***************************************************************************)
QuitKeys == {"Esc", "Ctrl-c"}

DrawFaults == {"draw_write", "draw_flush"}

\* The frame is whole: its first write clears the surface, its last is the flush.
FrameComplete ==
    /\ frame # << >>
    /\ frame[1].op = "clear"
    /\ frame[Len(frame)].op = "flush"

\* options.wrap(text) was called: by a draw_text call that returned Ok, or by
\* the latest one, which got past the banner.
WrapCalled == nRenders > 0 \/ Len(frame) >= 5

C2_FailureEndsLoop ==
    /\ [](fault \in DrawFaults \cup {"key_read"} => pc = "done" /\ result = fault)
    /\ [][fault # "none" => UNCHANGED << key, nEvents, nRenders, frame, fault, result >>]_vars

\* C2's case: the flush of the frame that followed the second key event
\* failed, and main returned that failure.
C2_Witness ==
    /\ pc = "done"
    /\ fault = "draw_flush"
    /\ result = "draw_flush"
    /\ nEvents = 2
    /\ nRenders = 2
    /\ ~FrameComplete

\* C3: no render before the terminal is acquired; whenever the loop waits
\* for a key, one render more than key events consumed has been performed
\* and the latest frame is whole; when main ended without a failed draw,
\* every key event but a quit key was followed by its render, and a failed
\* draw is the only render missing.
C3_RenderPerEvent ==
    /\ pc = "start" => nEvents = 0 /\ nRenders = 0
    /\ pc = "loop" => nRenders = nEvents + 1 /\ FrameComplete
    /\ (pc = "done" /\ fault \notin DrawFaults \cup {"raw_mode", "style_write"}) =>
           nRenders = (IF key.name \in QuitKeys THEN nEvents - 1 ELSE nEvents) + 1
    /\ (pc = "done" /\ fault \in DrawFaults) => nRenders = nEvents

\* C3's case: three key events, the last one a key no arm names, were
\* consumed and four renders performed.
C3_Witness ==
    /\ pc = "loop"
    /\ nEvents = 3
    /\ key.name = "Up"
    /\ nRenders = 4
    /\ FrameComplete

\* C4: the step that consumes Esc or Ctrl-c ends main and leaves the width,
\* break_words, the splitter, the iterator, the label, the text and the
\* frame as they were, with no render; and once main is over no key event
\* is consumed.
C4_QuitTerminates ==
    /\ [][(nEvents' = nEvents + 1 /\ key'.name \in QuitKeys) =>
             /\ pc' = "done"
             /\ UNCHANGED << options, idx_iter, label, text, frame, nRenders >>]_vars
    /\ [][pc = "done" => UNCHANGED << nEvents, nRenders, key >>]_vars

\* C4's case: Ctrl-c was consumed after two other key events, and main is
\* over with the three renders of before.
C4_Witness ==
    /\ pc = "done"
    /\ key.name = "Ctrl-c"
    /\ nEvents = 3
    /\ nRenders = 3
    /\ result = "Ok"

\* The line contents the frame shows, in the order they were written.
FrameLines(f) ==
    LET shown == SelectSeq(f, LAMBDA w : w.kind = "line")
    IN  [i \in 1..Len(shown) |-> shown[i].val]

Max(a, b) == IF a >= b THEN a ELSE b

\* C5: the width is always in 0 .. usize::MAX; the step that consumes Left
\* leaves a width of 0 at 0 and takes one from any other width; the step
\* that consumes Right leaves usize::MAX as it is and adds one to any other
\* width.
C5_WidthSaturates ==
    /\ [](options.width >= 0 /\ options.width <= UsizeMax)
    /\ [][(nEvents' = nEvents + 1 /\ key'.name = "Left") =>
             options'.width = (IF options.width = 0 THEN 0 ELSE options.width - 1)]_vars
    /\ [][(nEvents' = nEvents + 1 /\ key'.name = "Right") =>
             options'.width = (IF options.width = UsizeMax THEN UsizeMax
                                                          ELSE options.width + 1)]_vars

\* C5's case: the first key consumed at a width of 0 or usize::MAX - 1 was
\* Left and the width is 0: Left was consumed at width 0.
C5_Witness ==
    /\ pc = "loop"
    /\ nEvents = 1
    /\ key.name = "Left"
    /\ options.width = 0

\* C6: the step that consumes Backspace removes the last character of a
\* text that is not empty and leaves an empty text empty, and the step that
\* consumes a character appends it; and in a session that began with an
\* empty text and had all its a characters before all its b Backspace
\* events, the text has max(a - b, 0) characters.
C6_BackspaceAndAppend ==
    /\ [][(nEvents' = nEvents + 1 /\ key'.name = "Backspace") =>
             text' = (IF text = << >> THEN << >> ELSE SubSeq(text, 1, Len(text) - 1))]_vars
    /\ [][(nEvents' = nEvents + 1 /\ key'.name = "Char") =>
             text' = text \o << key'.c >>]_vars
    /\ [](~pushAfterPop => Len(text) = Max(nPush - nPop, 0))

\* C6's case: one character then two Backspace events, and the text is empty.
C6_Witness ==
    /\ pc = "loop"
    /\ nPush = 1
    /\ nPop = 2
    /\ ~pushAfterPop
    /\ key.name = "Backspace"
    /\ text = << >>

\* C7: the entries of the registry are distinct, and after k Ctrl-s events
\* the strategy installed and the label shown are those registered at
\* index k mod n, n being the size of the registry.
C7_CycleModN ==
    LET n == Len(splitters)
    IN  /\ Len(labels) = n
        /\ \A i, j \in 1..n : i # j => splitters[i] # splitters[j] /\ labels[i] # labels[j]
        /\ options.splitter = splitters[(nCycles % n) + 1]
        /\ label = labels[(nCycles % n) + 1]

\* C7's case: in a registry of three, three Ctrl-s events were consumed and
\* the first entry is the active one again.
C7_Witness ==
    /\ pc = "loop"
    /\ Len(splitters) = 3
    /\ nCycles = 3
    /\ options.splitter = splitters[1]
    /\ label = labels[1]

\* C8: the position of the index iterator is within the registry, the
\* label shown and the strategy installed are registered at one index, and
\* a frame that got as far as its splitter line shows that label.
C8_LabelMatchesSplitter ==
    LET n == Len(splitters)
    IN  /\ n > 0
        /\ Len(labels) = n
        /\ idx_iter \in 0..(n - 1)
        /\ \E i \in 1..n : labels[i] = label /\ splitters[i] = options.splitter
        /\ \A i \in 1..n :
              (splitters[i] = options.splitter /\ Len(frame) >= 5) =>
                  frame[5].kind = "splitter" /\ frame[5].val = << labels[i] >>

\* C8's case: after a Ctrl-s event the second strategy is installed and a
\* whole frame shows the second label.
C8_Witness ==
    /\ pc = "loop"
    /\ key.name = "Ctrl-s"
    /\ nCycles = 1
    /\ options.splitter = splitters[2]
    /\ FrameComplete
    /\ frame[5].val = << labels[2] >>

\* C9: once the wrap was called the padded line sequence is not empty, it
\* is the one empty line when the wrap returned no line, and a whole frame
\* shows exactly the padded lines.
C9_LinesNonEmpty ==
    WrapCalled =>
        /\ lines # << >>
        /\ raw = << >> => lines = << << >> >>
        /\ FrameComplete => FrameLines(frame) = lines

\* C9's case: at width 0 with break_words set, the wrap returned no line and
\* the frame drawn after the key event shows one empty line.
C9_Witness ==
    /\ pc = "loop"
    /\ nEvents > 0
    /\ options.width = 0
    /\ options.break_words
    /\ raw = << >>
    /\ FrameComplete
    /\ FrameLines(frame) = << << >> >>

\* C10: once the wrap was called: when its last line ends with a newline
\* the padded sequence is the raw one, unchanged and in order, followed by
\* one empty line; when the raw result has a last line that does not end
\* with a newline the padded sequence is the raw one.
C10_TrailingNewlinePadding ==
    (WrapCalled /\ raw # << >>) =>
        IF raw[Len(raw)] # << >> /\ raw[Len(raw)][Len(raw[Len(raw)])] = "\n"
        THEN /\ Len(lines) = Len(raw) + 1
             /\ \A i \in 1..Len(raw) : lines[i] = raw[i]
             /\ lines[Len(lines)] = << >>
        ELSE lines = raw

\* C10's case: the wrap returned two lines of which the last ends with a
\* newline, and the frame shows three lines, the last one empty.
C10_Witness ==
    /\ pc = "loop"
    /\ Len(raw) = 2
    /\ raw[2] = << "a", "\n" >>
    /\ FrameComplete
    /\ FrameLines(frame) = << raw[1], raw[2], << >> >>

\* The margin glyphs the frame shows, in the order they were written:
\* draw_margins writes the left one, then the right one.
FrameGlyphs(f) == SelectSeq(f, LAMBDA w : w.kind = "glyph")

\* C11: no render ends in a panic, and in every frame every left margin
\* glyph is at column TextCol - 1 = 2 and every right margin glyph at column
\* TextCol + width, whatever the width.
C11_MarginColumns ==
    /\ fault # "panic"
    /\ \A j \in 1..Len(FrameGlyphs(frame)) :
          FrameGlyphs(frame)[j].col =
              (IF j % 2 = 1 THEN TextCol - 1 ELSE TextCol + options.width)

\* C12: a key event changes only the component named for it: Left and Right
\* only the width; Ctrl-b only break_words; Ctrl-s only the active splitter
\* (the strategy and the registry cursor) and its label, width and
\* break_words being carried over; a character or Backspace only the text;
\* any other event nothing.  A step that only renders, or only ends the
\* loop, changes none of width, break_words, splitter, label and text.
C12_FrameEffects ==
    [][LET ev == nEvents' = nEvents + 1
           k == key'.name
       IN  /\ (ev /\ k \in {"Left", "Right"}) =>
                 /\ options' = [options EXCEPT !.width = options'.width]
                 /\ UNCHANGED << idx_iter, label, text >>
           /\ (ev /\ k = "Ctrl-b") =>
                 /\ options' =
                      [options EXCEPT !.break_words = options'.break_words]
                 /\ UNCHANGED << idx_iter, label, text >>
           /\ (ev /\ k = "Ctrl-s") =>
                 /\ options' = [options EXCEPT !.splitter = options'.splitter]
                 /\ UNCHANGED text
           /\ (ev /\ k \in {"Char", "Backspace"}) =>
                 UNCHANGED << options, idx_iter, label >>
           /\ (ev /\ k \notin {"Left", "Right", "Ctrl-b", "Ctrl-s", "Char",
                                "Backspace"}) =>
                 UNCHANGED << options, idx_iter, label, text >>
           /\ ~ev => UNCHANGED << options, idx_iter, label, text >>
           /\ UNCHANGED << labels, splitters >>]_vars

\* The splitter was cycled after the width and break_words had been changed,
\* and the frame was drawn.
C12_Witness ==
    /\ key.name = "Ctrl-s"
    /\ options.width # initial_width
    /\ options.break_words
    /\ options.splitter = "NoHyphenation"
    /\ FrameComplete

\* C13: one Ctrl-b event leaves break_words the negation of what it was, and
\* the second of two consecutive Ctrl-b events leaves it what it was before
\* the first, from every state of the loop.
C13_ToggleInvolution ==
    [][(nEvents' = nEvents + 1 /\ key'.name = "Ctrl-b") =>
           /\ options'.break_words = ~options.break_words
           /\ (nEvents > 0 /\ key.name = "Ctrl-b") =>
                 options'.break_words = prevBreakWords]_vars

\* Ctrl-b was pressed twice in a row from the initial state: the first
\* event switched break_words on and the second switched it off again.
C13_Witness ==
    /\ nEvents = 2
    /\ key.name = "Ctrl-b"
    /\ prevBreakWords
    /\ ~options.break_words
    /\ FrameComplete

\* The cells a write of content leaves its characters in: as many as the
\* content has characters other than a newline, which moves the cursor only.
Shown(val) == Cardinality({ k \in 1..Len(val) : val[k] # "\n" })

\* The write w of a margin glyph or of a line puts a character in the cell
\* of row `row` that is `off` columns right of the text column (line 129:
\* the line starts at the text column; lines 38 and 46: a glyph is one cell).
Covers(w, row, off) ==
    /\ w.op = "put"
    /\ w.row = row
    /\ \/ w.kind = "glyph" /\ w.col - TextCol = off
       \/ w.kind = "line" /\ off >= 0 /\ off < Shown(w.val)

\* The writes of f that cover the cell, and the last of them: 0 when none.
Writers(f, row, off) == { j \in 1..Len(f) : Covers(f[j], row, off) }

LastWriter(f, row, off) ==
    IF Writers(f, row, off) = {} THEN 0
    ELSE CHOOSE j \in Writers(f, row, off) :
             \A m \in Writers(f, row, off) : m <= j

\* The cell holds a margin glyph once all of f is written.
HoldsGlyph(f, row, off) ==
    /\ LastWriter(f, row, off) # 0
    /\ f[LastWriter(f, row, off)].kind = "glyph"

\* The writes of f to row `row` that are of kind `kind`.
RowWrites(f, row, kind) ==
    { j \in 1..Len(f) : f[j].op = "put" /\ f[j].row = row /\ f[j].kind = kind }

\* C14 as the specification states it: on every text row of a complete frame
\* both margin glyphs are written before the content of the line, and when
\* the frame is complete the cell left of the text column and the cell
\* `width` columns right of it still hold a margin glyph, whatever the width,
\* break_words and the length of the line.
C14_MarginsIntact ==
    FrameComplete =>
        \A i \in 1..Len(lines) :
            /\ \A g \in RowWrites(frame, MarginRow + i, "glyph") :
                  \A t \in RowWrites(frame, MarginRow + i, "line") : g < t
            /\ HoldsGlyph(frame, MarginRow + i, 0 - 1)
            /\ HoldsGlyph(frame, MarginRow + i, options.width)

\* The offset from the text column at which the right glyph of the row was
\* written: the later of the two glyph writes to the row.
RightOffset(f, row) ==
    LET g == CHOOSE j \in RowWrites(f, row, "glyph") :
                 \A m \in RowWrites(f, row, "glyph") : m <= j
    IN  f[g].col - TextCol

\* C14, amended: on every text row of a complete frame both margin glyphs
\* are written before the content of the line; the cell left of the text
\* column still holds a margin glyph; the cell in which the right glyph was
\* written still holds it exactly when the content of the line does not
\* reach it, and up to the width 65532 that cell is `width` columns right of
\* the text column, so the glyph is still there exactly when the line has at
\* most `width` characters.
C14_MarginsUnlessOverrun ==
    FrameComplete =>
        \A i \in 1..Len(lines) :
            LET row == MarginRow + i
                off == RightOffset(frame, row)
            IN  /\ Cardinality(RowWrites(frame, row, "glyph")) = 2
                /\ \A g \in RowWrites(frame, row, "glyph") :
                      \A t \in RowWrites(frame, row, "line") : g < t
                /\ HoldsGlyph(frame, row, 0 - 1)
                /\ HoldsGlyph(frame, row, off)
                       <=> ~(off >= 0 /\ off < Shown(lines[i]))
                /\ options.width < U16Range - TextCol =>
                      /\ off = options.width
                      /\ HoldsGlyph(frame, row, options.width)
                             <=> Shown(lines[i]) <= options.width

\* A complete frame of two lines at width 1, break_words = false: the first line has one
\* character and its right glyph is still there, the second has two and
\* was written over the right glyph of its row.
C14_Witness ==
    /\ FrameComplete
    /\ ~options.break_words
    /\ options.width = 1
    /\ Len(lines) = 2
    /\ Shown(lines[1]) = 1
    /\ HoldsGlyph(frame, MarginRow + 1, 1)
    /\ Shown(lines[2]) = 2
    /\ ~HoldsGlyph(frame, MarginRow + 2, 1)

\* The writes of f of kind `kind` that carry the content val.
Puts(f, kind, val) ==
    { j \in 1..Len(f) : f[j].op = "put" /\ f[j].kind = kind /\ f[j].val = val }

C16_ClearFirstFlushLast ==
    /\ frame # << >> => frame[1].op = "clear"
    /\ \A j \in 2..Len(frame) : frame[j].op # "clear"
    /\ \A j \in 1..Len(frame) : frame[j].op = "flush" => j = Len(frame)
    /\ (nRenders > 0 /\ fault \notin DrawFaults \cup {"panic"}) =>
          /\ FrameComplete
          /\ Cardinality({ j \in 1..Len(frame) : frame[j].op = "flush" }) = 1

\* The render after a key event returned Ok: its frame of two display lines
\* has put instructions between the clear and the flush.
C16_Witness ==
    /\ nEvents > 0
    /\ pc = "loop"
    /\ Len(lines) = 2
    /\ frame[1].op = "clear"
    /\ frame[Len(frame)].op = "flush"
    /\ \A j \in 2..(Len(frame) - 1) : frame[j].op = "put"
    /\ Len(frame) > 5 + 4

\* C17: whether or not the dictionary was loaded, the registry has as many
\* labels as strategies and is not empty; the label of the dictionary is
\* there exactly when its strategy is, at the same index, after the two
\* built-in entries; and until the first key event entry 0, labelled
\* "HyphenSplitter", is the active one, the width is 20 and break_words is
\* false.
C17_RegistryAtStartup ==
    /\ Len(labels) = Len(splitters)
    /\ Len(labels) >= 2
    /\ labels[1] = "HyphenSplitter" /\ splitters[1] = "HyphenSplitter"
    /\ labels[2] = "NoHyphenation" /\ splitters[2] = "NoHyphenation"
    /\ \A i \in 1..Len(labels) :
          /\ labels[i] = "en-us hyphenation" <=> splitters[i] = "Standard(en-us)"
          /\ i > 2 => labels[i] = "en-us hyphenation"
    /\ Len(labels) <= 3
    /\ nEvents = 0 =>
          /\ label = "HyphenSplitter"
          /\ options = [width |-> 20, break_words |-> FALSE,
                        splitter |-> "HyphenSplitter"]
          /\ idx_iter = 1

\* The dictionary failed to load, and the first frame was drawn from the
\* registry of the two built-in entries.
C17_Witness ==
    /\ Len(labels) = 2
    /\ Len(splitters) = 2
    /\ pc = "loop"
    /\ nEvents = 0
    /\ FrameComplete
    /\ frame[5].val = << "HyphenSplitter" >>
    /\ frame[3].val = << 20 >>

ExitFaults ==
    DrawFaults \cup {"panic", "key_read", "style_write", "raw_mode"}

\* C19: the blinking-underline style is written at most once, not before the
\* terminal is acquired and before anything is rendered, and exactly once
\* when the loop is entered; the reset sequence is written at most once, and
\* only on the way out of a loop that ended by a quit key or the end of the
\* keys, never when main returns the failure of reading an event or of
\* drawing a frame.
C19_CursorStyle ==
    /\ styleSet \in {0, 1}
    /\ styleReset \in {0, 1}
    /\ styleSet = 1 => (pc # "start" /\ fault # "raw_mode")
    /\ (frame # << >> \/ nRenders > 0) => styleSet = 1
    /\ pc = "loop" => (styleSet = 1 /\ styleReset = 0)
    /\ styleReset = 1 =>
          /\ pc = "done"
          /\ fault \in {"none", "final_flush"}
          /\ styleSet = 1
    /\ fault \in ExitFaults => styleReset = 0

\* main returned the failure of reading an event, after the style was set
\* and a frame drawn: the reset sequence was not written.
C19_Witness ==
    /\ pc = "done"
    /\ fault = "key_read"
    /\ nEvents > 0
    /\ styleSet = 1
    /\ styleReset = 0

=============================================================================
